---------------------------- MODULE Spec2Model ----------------------------
(***************************************************************************)
(* Model of the ML classifier service: the keyword-matching heuristic      *)
(* classifier (domain/classifiers/heuristic.py) and the request handlers   *)
(* in front of it (api/routes/classification.py, api/schemas).             *)
(*                                                                         *)
(* Texts.  A task description is a string.  It is represented by the       *)
(* sequence of its "pieces": the maximal runs of word characters (\w+) and *)
(* the separator strings between them, in order, and the number `pad` of   *)
(* occurrences of " lorem" (a filler word no pattern mentions) that follow *)
(* them, so that descriptions of more than a hundred words stay small      *)
(* values.                                                                 *)
(*                                                                         *)
(* Numbers.  A confidence is a rational <<numerator, denominator>> in      *)
(* lowest terms; every value the code computes (0.3, 0.85, 0.95 and the    *)
(* quotients of two match counts) is compared exactly.                     *)
(***************************************************************************)
EXTENDS Integers, Sequences, FiniteSets, TLC

(***************************************************************************)
(* Bounds of the explored inputs.                                          *)
(***************************************************************************)
MaxItems == 3       \* phrases in an unpadded description
MaxPadItems == 1    \* phrases in front of a run of filler words
MaxPad == 101       \* filler words appended to a description
NumHandlers == 2    \* requests the service handles at the same time
MaxBatch == 3       \* requests in the body of a batch request

(***************************************************************************)
(* domain/models/task_type.py                                              *)
(***************************************************************************)
TaskType ==
    {"bug_fix", "feature", "refactor", "documentation", "test", "deployment"}

TaskComplexity == {"simple", "medium", "complex"}

(***************************************************************************)
(* Regular expressions.  Every pattern of the tables has the shape         *)
(* \b e1 e2 ... en \b where each e_i is either a word with alternatives    *)
(* (fail(s|ing|ed)? is the word fail, fails, failing or failed) or a       *)
(* separator class ([ -] is " " or "-").  A pattern is the sequence of     *)
(* the sets of strings each e_i admits; it also stands for its own source  *)
(* text (pattern.pattern).                                                 *)
(***************************************************************************)
Kw(w) == << {w} >>

KEYWORDS ==
    << [task_type |-> "bug_fix", patterns |->
          << Kw("bug"), Kw("error"), Kw("fix"), Kw("crash"), Kw("issue"),
             << {"fail", "fails", "failing", "failed"} >>, Kw("broken"),
             Kw("defect"), Kw("problem"), Kw("incorrect") >>],
       [task_type |-> "feature", patterns |->
          << Kw("add"), Kw("implement"), Kw("create"), Kw("new"),
             Kw("feature"), Kw("enhance"), Kw("support"),
             Kw("introduce"), Kw("extend"), Kw("build") >>],
       [task_type |-> "refactor", patterns |->
          << Kw("refactor"), Kw("clean"), Kw("optimize"),
             Kw("improve"), Kw("reorganize"), Kw("restructure"),
             Kw("simplify"), Kw("modernize"), Kw("upgrade") >>],
       [task_type |-> "test", patterns |->
          << Kw("test"), << {"unit"}, {" "}, {"test"} >>,
             << {"integration"}, {" "}, {"test"} >>,
             Kw("coverage"), Kw("spec"), Kw("validate"),
             Kw("verify"), Kw("mock"), Kw("assertion") >>],
       [task_type |-> "documentation", patterns |->
          << << {"doc", "docs", "documentation"} >>, Kw("readme"),
             Kw("comment"), Kw("explain"), Kw("describe"), Kw("guide"),
             Kw("tutorial"), Kw("example"), Kw("annotate") >>],
       [task_type |-> "deployment", patterns |->
          << Kw("deploy"), Kw("release"), << {"ci"}, {"/"}, {"cd"} >>,
             Kw("pipeline"), Kw("docker"), Kw("kubernetes"), Kw("helm"),
             Kw("container"), Kw("infrastructure") >>] >>

COMPLEXITY_KEYWORDS ==
    [simple |->
        << Kw("small"), Kw("quick"), Kw("minor"), Kw("trivial"),
           Kw("typo"), << {"one"}, {" ", "-"}, {"line"} >>, Kw("simple") >>,
     complex |->
        << Kw("complex"), Kw("major"), Kw("architecture"),
           Kw("rewrite"), Kw("migration"),
           << {"refactor"}, {" "}, {"all"} >>,
           << {"large"}, {" ", "-"}, {"scale"} >>, Kw("entire"),
           << {"system"}, {" ", "-"}, {"wide"} >> >>]

(***************************************************************************)
(* Descriptions.                                                           *)
(***************************************************************************)
Whitespace == {" "}

\* Phrases the explored descriptions are made of, each a sequence of pieces.
Vocabulary ==
    { << "Fix" >>,
      << "fix", " ", "broken", " ", "failing", " ", "bug", " ", "crash",
         " ", "issue" >>,
      << "add" >>,
      << "refactor" >>, << "all" >>,
      << "unit", " ", "test" >>,
      << "docs" >>,
      << "deploy" >>,
      << "one", "-", "line" >>,
      << "major" >>,
      << "prefix" >> }

RECURSIVE SeqsUpTo(_, _)
SeqsUpTo(S, n) ==
    IF n = 0 THEN { << >> }
    ELSE LET shorter == SeqsUpTo(S, n - 1)
         IN  shorter \cup { Append(s, x) : s \in shorter, x \in S }

\* The pieces of a run of phrases joined by single spaces.
RECURSIVE Pieces(_)
Pieces(items) ==
    IF items = << >> THEN << >>
    ELSE IF Len(items) = 1 THEN Head(items)
    ELSE Head(items) \o << " " >> \o Pieces(Tail(items))

Text(items, pad) == [pieces |-> Pieces(items), pad |-> pad]

EmptyText == Text(<< >>, 0)

\* The filler counts explored: none or one, and those that carry a short
\* description across the two word-count thresholds of _classify_complexity.
Pads == { p \in 0..MaxPad : p <= 1 \/ (13 <= p /\ p <= 21) \/ 93 <= p }

Texts ==
    { Text(s, 0) : s \in SeqsUpTo(Vocabulary, MaxItems) }
      \cup { Text(s, p) : s \in SeqsUpTo(Vocabulary, MaxPadItems), p \in Pads }

\* len(task_description)
RECURSIVE PiecesLen(_)
PiecesLen(ps) == IF ps = << >> THEN 0 ELSE Len(Head(ps)) + PiecesLen(Tail(ps))

StrLen(text) == PiecesLen(text.pieces) + 6 * text.pad

\* len(description.split()): the maximal runs of non-whitespace.
WordCount(text) ==
    LET ps == text.pieces
    IN  Cardinality({ i \in 1..Len(ps) :
                        /\ ps[i] \notin Whitespace
                        /\ (i = 1 \/ ps[i - 1] \in Whitespace) })
          + text.pad

(***************************************************************************)
(* re.compile(pattern, re.IGNORECASE) and pattern.search(text).            *)
(***************************************************************************)
\* Case folding, on the pieces the explored descriptions are made of: the
\* one that has a capital, and the others, which fold to themselves.
Lower(s) ==
    CASE s = "Fix" -> "fix"
      [] OTHER -> s

compile(pattern) == [pattern |-> pattern, ignorecase |-> TRUE]

\* A compiled pattern matches at piece i when each element admits the piece
\* at its place.  The patterns start and end with a word and the pieces are
\* maximal runs, so both \b assertions hold exactly there.  The filler words
\* after the pieces are no alternative of any pattern and are preceded by a
\* space, so no match reaches into them.
search(compiled, text) ==
    LET ps == text.pieces
        p  == compiled.pattern
        fold(s) == IF compiled.ignorecase THEN Lower(s) ELSE s
    IN  \E i \in 1..(Len(ps) - Len(p) + 1) :
            \A j \in 1..Len(p) : fold(ps[i + j - 1]) \in p[j]


(***************************************************************************)
(* Exact arithmetic on the confidence values.                              *)
(***************************************************************************)
RECURSIVE GCD(_, _)
GCD(a, b) == IF b = 0 THEN a ELSE GCD(b, a % b)

Q(n, d) == LET g == GCD(n, d) IN << n \div g, d \div g >>

AddQ(a, b) == Q(a[1] * b[2] + b[1] * a[2], a[2] * b[2])

LeQ(a, b) == a[1] * b[2] <= b[1] * a[2]

LtQ(a, b) == a[1] * b[2] < b[1] * a[2]

\* Python's min(a, b): b only when it is strictly smaller.
MinQ(a, b) == IF LtQ(b, a) THEN b ELSE a

(***************************************************************************)
(* api/schemas/classification.py: ClassificationResult.  Construction      *)
(* validates the fields and raises instead of returning a record that      *)
(* breaks a constraint.                                                    *)
(***************************************************************************)
ValidationError == [error |-> "ValidationError"]

ClassificationResult(task_type, complexity, confidence, reasoning, suggested_strategy, estimated_tokens, classifier_used) ==
    IF /\ task_type \in TaskType
       /\ complexity \in TaskComplexity
       /\ LeQ(Q(0, 1), confidence) /\ LeQ(confidence, Q(1, 1))
       /\ estimated_tokens > 0
    THEN [task_type |-> task_type,
          complexity |-> complexity,
          confidence |-> confidence,
          reasoning |-> reasoning,
          suggested_strategy |-> suggested_strategy,
          estimated_tokens |-> estimated_tokens,
          classifier_used |-> classifier_used]
    ELSE ValidationError

(***************************************************************************)
(* domain/classifiers/heuristic.py: HeuristicClassifier                    *)
(***************************************************************************)
\* __init__: the two tables with every pattern compiled.
init_compiled_keywords ==
    [i \in 1..Len(KEYWORDS) |->
        [task_type |-> KEYWORDS[i].task_type,
         patterns  |-> [k \in 1..Len(KEYWORDS[i].patterns) |->
                           compile(KEYWORDS[i].patterns[k])]]]

init_compiled_complexity ==
    [level \in DOMAIN COMPLEXITY_KEYWORDS |->
        [k \in 1..Len(COMPLEXITY_KEYWORDS[level]) |->
            compile(COMPLEXITY_KEYWORDS[level][k])]]

\* The patterns of a compiled list that match, in the list's order.
matched_patterns(patterns, text) ==
    LET F[k \in 0..Len(patterns)] ==
            IF k = 0 THEN << >>
            ELSE IF search(patterns[k], text)
                 THEN Append(F[k - 1], patterns[k].pattern)
                 ELSE F[k - 1]
    IN  F[Len(patterns)]

\* classify, lines 82-86: match_counts, a dict in insertion order, as the
\* sequence of its items.
count_matches(ck, text) ==
    LET F[i \in 0..Len(ck)] ==
            IF i = 0 THEN << >>
            ELSE LET count == Len(matched_patterns(ck[i].patterns, text))
                 IN  IF count > 0
                     THEN Append(F[i - 1],
                                 [task_type |-> ck[i].task_type,
                                  count |-> count])
                     ELSE F[i - 1]
    IN  F[Len(ck)]

\* Mutant of max_by_count: among the keys with the highest value, the last.
max_by_count_last(match_counts) ==
    LET i == CHOOSE i \in 1..Len(match_counts) :
                /\ \A j \in 1..Len(match_counts) :
                      match_counts[j].count <= match_counts[i].count
                /\ \A j \in (i + 1)..Len(match_counts) :
                      match_counts[j].count < match_counts[i].count
    IN  match_counts[i].task_type

\* Mutant of max_by_count: min instead of max, the first key whose value
\* is the lowest.
max_by_count_least(match_counts) ==
    LET i == CHOOSE i \in 1..Len(match_counts) :
                /\ \A j \in 1..Len(match_counts) :
                      match_counts[i].count <= match_counts[j].count
                /\ \A j \in 1..(i - 1) :
                      match_counts[i].count < match_counts[j].count
    IN  match_counts[i].task_type

\* max(match_counts, key=match_counts.get): the first key, in iteration
\* order, whose value no other exceeds.
max_by_count(match_counts) ==
    LET i == CHOOSE i \in 1..Len(match_counts) :
                /\ \A j \in 1..Len(match_counts) :
                      match_counts[j].count <= match_counts[i].count
                /\ \A j \in 1..(i - 1) :
                      match_counts[j].count < match_counts[i].count
    IN  match_counts[i].task_type

\* sum(match_counts.values())
RECURSIVE sum_counts(_)
sum_counts(match_counts) ==
    IF match_counts = << >> THEN 0
    ELSE Head(match_counts).count + sum_counts(Tail(match_counts))

count_of(match_counts, task_type) ==
    LET i == CHOOSE i \in 1..Len(match_counts) :
                match_counts[i].task_type = task_type
    IN  match_counts[i].count

\* Mutant of confidence_of: the boost is added without the cap.
confidence_of_uncapped(match_counts, max_matches) ==
    LET total_matches   == sum_counts(match_counts)
        base_confidence == Q(max_matches, total_matches)
    IN  IF Len(match_counts) = 1
        THEN AddQ(base_confidence, Q(2, 10))
        ELSE MinQ(Q(85, 100), base_confidence)

\* Mutant of confidence_of: the two caps change places.
confidence_of_swapped_caps(match_counts, max_matches) ==
    LET total_matches   == sum_counts(match_counts)
        base_confidence == Q(max_matches, total_matches)
    IN  IF Len(match_counts) = 1
        THEN MinQ(Q(85, 100), AddQ(base_confidence, Q(2, 10)))
        ELSE MinQ(Q(95, 100), base_confidence)

\* classify, lines 104-112
confidence_of(match_counts, max_matches) ==
    LET total_matches   == sum_counts(match_counts)
        base_confidence == IF total_matches > 0
                           THEN Q(max_matches, total_matches)
                           ELSE Q(0, 1)
    IN  IF Len(match_counts) = 1
        THEN MinQ(Q(95, 100), AddQ(base_confidence, Q(2, 10)))
        ELSE MinQ(Q(85, 100), base_confidence)

\* Mutant of _classify_complexity: both word-count thresholds are taken
\* inclusively.
_classify_complexity_inclusive(cc, description) ==
    LET simple_matches  == Len(matched_patterns(cc["simple"], description))
        complex_matches == Len(matched_patterns(cc["complex"], description))
        word_count      == WordCount(description)
    IN  IF complex_matches > 0 THEN "complex"
        ELSE IF simple_matches > 0 THEN "simple"
        ELSE IF word_count <= 20 THEN "simple"
        ELSE IF word_count >= 100 THEN "complex"
        ELSE "medium"

\* _classify_complexity, lines 133-165.
_classify_complexity(cc, description) ==
    LET simple_matches  == Len(matched_patterns(cc["simple"], description))
        complex_matches == Len(matched_patterns(cc["complex"], description))
        word_count      == WordCount(description)
    IN  IF complex_matches > 0 THEN "complex"
        ELSE IF simple_matches > 0 THEN "simple"
        ELSE IF word_count < 20 THEN "simple"
        ELSE IF word_count > 100 THEN "complex"
        ELSE "medium"

_suggest_strategy(complexity) ==
    [simple |-> "SingleShot", medium |-> "Iterative",
     complex |-> "MultiAgent"][complexity]

_estimate_tokens(complexity) ==
    [simple |-> 2000, medium |-> 6000, complex |-> 20000][complexity]

NoMatchReasoning ==
    [format |-> "No keyword matches found, defaulting to FEATURE",
     args |-> << >>]

\* Mutant of MatchedReasoning: the last three matched patterns are listed.
MatchedReasoning_last_three(max_matches, predicted_type, matched) ==
    [format |-> "Matched {} keywords for {}: {}",
     args |-> << max_matches, predicted_type,
                 SubSeq(matched, IF Len(matched) < 3 THEN 1
                                 ELSE Len(matched) - 2, Len(matched)) >>]

\* f"Matched {max_matches} keywords for {predicted_type.value}: {...}"
MatchedReasoning(max_matches, predicted_type, matched) ==
    [format |-> "Matched {} keywords for {}: {}",
     args |-> << max_matches, predicted_type,
                 SubSeq(matched, 1, IF Len(matched) < 3 THEN Len(matched)
                                    ELSE 3) >>]

\* Mutant of no_matches: a single matched type is taken for none.
no_matches_or_one(match_counts) == Len(match_counts) <= 1

\* classify, line 89: `if not match_counts`
no_matches(match_counts) == match_counts = << >>

\* Mutant of no_match_result: the fallback confidence is a half.
no_match_result_half(cc, task_description) ==
    ClassificationResult(
        "feature",
        _classify_complexity(cc, task_description),
        Q(5, 10),
        NoMatchReasoning,
        "Iterative",
        2000,
        "heuristic")

\* classify, lines 90-98: the result when no task type matched.
no_match_result(cc, task_description) ==
    ClassificationResult(
        "feature",
        _classify_complexity(cc, task_description),
        Q(3, 10),
        NoMatchReasoning,
        "Iterative",
        2000,
        "heuristic")

\* classify, lines 88-131, from the match counts on.
build_result(ck, cc, match_counts, task_description) ==
    IF no_matches(match_counts)
    THEN no_match_result(cc, task_description)
    ELSE LET predicted_type == max_by_count(match_counts)
             max_matches    == count_of(match_counts, predicted_type)
             confidence     == confidence_of(match_counts, max_matches)
             complexity     == _classify_complexity(cc, task_description)
             patterns       == (CHOOSE e \in { ck[i] : i \in 1..Len(ck) } :
                                   e.task_type = predicted_type).patterns
             matched        == matched_patterns(patterns, task_description)
         IN  ClassificationResult(
                 predicted_type,
                 complexity,
                 confidence,
                 MatchedReasoning(max_matches, predicted_type, matched),
                 _suggest_strategy(complexity),
                 _estimate_tokens(complexity),
                 "heuristic")

classify(ck, cc, task_description) ==
    build_result(ck, cc, count_matches(ck, task_description), task_description)

(***************************************************************************)
(* api/schemas/classification.py: ClassificationRequest.  A request body   *)
(* is a JSON object, a record that has a field or lacks it.                *)
(***************************************************************************)
\* Mutant of valid_request: the field is required, its length is not checked.
valid_request_any_length(body) == "task_description" \in DOMAIN body

\* task_description: str = Field(..., min_length=1); the two optional fields
\* accept their absence.
valid_request(body) ==
    /\ "task_description" \in DOMAIN body
    /\ StrLen(body.task_description) >= 1

(***************************************************************************)
(* State.                                                                  *)
(***************************************************************************)
VARIABLES
    compiled_keywords,     \* self.compiled_keywords of the one classifier
    compiled_complexity,   \* self.compiled_complexity
    task_description,      \* argument of a direct call of classify
    result,                \* what that call returned
    pc,                    \* "call" before the direct call, "done" after it
    hpc,                   \* per handler: where it stands
    request,               \* per handler: the request it serves
    frame,                 \* per handler: the local variables of its calls
    response               \* per handler: the response it sent

classifier == << compiled_keywords, compiled_complexity >>

direct == << task_description, result, pc >>

handlers == << hpc, request, frame, response >>

vars == << compiled_keywords, compiled_complexity, task_description, result,
           pc, hpc, request, frame, response >>

NoResult == [none |-> TRUE]

Handlers == 1..NumHandlers

NoRequest == [endpoint |-> "none", body |-> << >>]

NoFrame == [match_counts |-> << >>, i |-> 0, results |-> << >>, e |-> ""]

NoResponse == [status |-> 0, result |-> NoResult, results |-> << >>,
               detail |-> << >>]

Response(status, res, results, detail) ==
    [status |-> status, result |-> res, results |-> results,
     detail |-> detail]

\* routes/classification.py line 13: heuristic_classifier =
\* HeuristicClassifier(), the one instance every handler uses.
Construct ==
    /\ compiled_keywords = init_compiled_keywords
    /\ compiled_complexity = init_compiled_complexity

Idle ==
    /\ hpc = [h \in Handlers |-> "idle"]
    /\ request = [h \in Handlers |-> NoRequest]
    /\ frame = [h \in Handlers |-> NoFrame]
    /\ response = [h \in Handlers |-> NoResponse]

(***************************************************************************)
(* Spec: one direct call of classify on one description.                   *)
(***************************************************************************)
Init ==
    /\ Construct
    /\ Idle
    /\ task_description \in Texts
    /\ result = NoResult
    /\ pc = "call"

Classify ==
    /\ pc = "call"
    /\ result' = classify(compiled_keywords, compiled_complexity,
                          task_description)
    /\ pc' = "done"
    /\ UNCHANGED << classifier, task_description, handlers >>

Next == Classify

Spec == Init /\ [][Next]_vars

(***************************************************************************)
(* The service.  FastAPI validates the body against the handler's          *)
(* parameter type before it calls the handler and answers 422 itself when  *)
(* the body does not validate.  A handler is a coroutine without an await; *)
(* the model lets the handlers interleave between the two halves of         *)
(* classify all the same, which covers callers on several threads.         *)
(***************************************************************************)
\* Descriptions the requests carry: some keywords, none, and a blank.
ServiceTexts ==
    { Text(<< << "Fix" >> >>, 0),
      Text(<< << "docs" >>, << "deploy" >> >>, 0),
      Text(<< << "prefix" >> >>, 20),
      [pieces |-> << " " >>, pad |-> 0] }

Bodies ==
    { [task_description |-> t] : t \in ServiceTexts \cup {EmptyText} }
      \cup { [invalid_field |-> "some value"] }

InitService ==
    /\ Construct
    /\ Idle
    /\ task_description = EmptyText
    /\ result = NoResult
    /\ pc = "unused"

\* Mutant of bind_local: the value is kept on the shared instance, where
\* every call in progress reads it.
bind_shared(frames, h, name, value) ==
    [k \in DOMAIN frames |-> [frames[k] EXCEPT ![name] = value]]

\* An assignment to a local variable of the call handler h runs.
bind_local(frames, h, name, value) ==
    [frames EXCEPT ![h][name] = value]

\* A request whose body does not validate never reaches the handler.
Reject(h, endpoint, body) ==
    /\ hpc[h] = "idle"
    /\ hpc' = [hpc EXCEPT ![h] = "responded"]
    /\ request' = [request EXCEPT ![h] = [endpoint |-> endpoint, body |-> body]]
    /\ response' = [response EXCEPT ![h] =
                       Response(422, NoResult, << >>,
                                << "validation error" >>)]
    /\ UNCHANGED << classifier, direct, frame >>

\* classify_task is called; it calls classify, which counts the matches
\* (heuristic.py lines 82-86).
SingleCall(h, body) ==
    /\ hpc[h] = "idle"
    /\ valid_request(body)
    /\ request' = [request EXCEPT ![h] =
                      [endpoint |-> "/classify/", body |-> body]]
    /\ hpc' = [hpc EXCEPT ![h] = "classify"]
    /\ frame' = bind_local(frame, h, "match_counts",
                           count_matches(compiled_keywords,
                                         body.task_description))
    /\ UNCHANGED << classifier, direct, response >>

\* classify builds and returns its result (lines 88-131) and classify_task
\* returns it; a result that does not validate is an exception on its way
\* out of classify.
SingleReturn(h) ==
    /\ hpc[h] = "classify"
    /\ request[h].endpoint = "/classify/"
    /\ LET res == build_result(compiled_keywords, compiled_complexity,
                               frame[h].match_counts,
                               request[h].body.task_description)
       IN  IF res = ValidationError
           THEN /\ hpc' = [hpc EXCEPT ![h] = "raised"]
                /\ frame' = bind_local(frame, h, "e", ValidationError.error)
                /\ UNCHANGED response
           ELSE /\ response' = [response EXCEPT ![h] =
                                   Response(200, res, << >>, << >>)]
                /\ hpc' = [hpc EXCEPT ![h] = "responded"]
                /\ frame' = [frame EXCEPT ![h] = NoFrame]
    /\ UNCHANGED << classifier, direct, request >>

\* The client has its response; the handler serves the next request.
Done(h) ==
    /\ hpc[h] = "responded"
    /\ hpc' = [hpc EXCEPT ![h] = "idle"]
    /\ request' = [request EXCEPT ![h] = NoRequest]
    /\ response' = [response EXCEPT ![h] = NoResponse]
    /\ UNCHANGED << classifier, direct, frame >>

NextService ==
    \E h \in Handlers :
        \/ \E body \in Bodies :
              /\ ~valid_request(body)
              /\ Reject(h, "/classify/", body)
        \/ \E body \in Bodies : SingleCall(h, body)
        \/ SingleReturn(h)
        \/ Done(h)

SpecService == InitService /\ [][NextService]_vars

(***************************************************************************)
(* The batch endpoint: classify_tasks_batch, routes/classification.py      *)
(* lines 54-85.  Its body is a list of requests, each validated before the *)
(* handler is called.                                                      *)
(***************************************************************************)
valid_batch(bodies) == \A k \in 1..Len(bodies) : valid_request(bodies[k])

\* Mutant of batch_append: the new result is put in front.
batch_prepend(results, res) == << res >> \o results

\* results.append(result)
batch_append(results, res) == Append(results, res)

\* The handler is called: results = [] and the loop starts.
BatchCall(h, bodies) ==
    /\ hpc[h] = "idle"
    /\ valid_batch(bodies)
    /\ request' = [request EXCEPT ![h] =
                      [endpoint |-> "/classify/batch", body |-> bodies]]
    /\ hpc' = [hpc EXCEPT ![h] = "loop"]
    /\ frame' = bind_local(bind_local(frame, h, "results", << >>),
                           h, "i", 1)
    /\ UNCHANGED << classifier, direct, response >>

\* for request in requests: classify is called and counts the matches.
BatchCount(h) ==
    /\ hpc[h] = "loop"
    /\ frame[h].i <= Len(request[h].body)
    /\ hpc' = [hpc EXCEPT ![h] = "classify"]
    /\ frame' = bind_local(frame, h, "match_counts",
                    count_matches(compiled_keywords,
                        request[h].body[frame[h].i].task_description))
    /\ UNCHANGED << classifier, direct, request, response >>

\* classify returns and its result is appended; a result that does not
\* validate is an exception on its way out of classify.
BatchAppend(h) ==
    /\ hpc[h] = "classify"
    /\ request[h].endpoint = "/classify/batch"
    /\ LET res == build_result(compiled_keywords, compiled_complexity,
                      frame[h].match_counts,
                      request[h].body[frame[h].i].task_description)
       IN  IF res = ValidationError
           THEN /\ hpc' = [hpc EXCEPT ![h] = "raised"]
                /\ frame' = bind_local(frame, h, "e", ValidationError.error)
                /\ UNCHANGED response
           ELSE /\ frame' = bind_local(
                       bind_local(frame, h, "results",
                                  batch_append(frame[h].results, res)),
                       h, "i", frame[h].i + 1)
                /\ hpc' = [hpc EXCEPT ![h] = "loop"]
                /\ UNCHANGED response
    /\ UNCHANGED << classifier, direct, request >>

\* return results
BatchReturn(h) ==
    /\ hpc[h] = "loop"
    /\ frame[h].i > Len(request[h].body)
    /\ response' = [response EXCEPT ![h] =
                       Response(200, NoResult, frame[h].results, << >>)]
    /\ hpc' = [hpc EXCEPT ![h] = "responded"]
    /\ frame' = [frame EXCEPT ![h] = NoFrame]
    /\ UNCHANGED << classifier, direct, request >>

Batches == SeqsUpTo(Bodies, MaxBatch)

\* One handler serving batch requests, one after the other.
NextBatch ==
    \/ \E bodies \in Batches :
          /\ ~valid_batch(bodies)
          /\ Reject(1, "/classify/batch", bodies)
    \/ \E bodies \in Batches : BatchCall(1, bodies)
    \/ BatchCount(1)
    \/ BatchAppend(1)
    \/ BatchReturn(1)
    \/ Done(1)

SpecBatch == InitService /\ [][NextBatch]_vars

(***************************************************************************)
(* Failures.  Both handlers wrap their body in try / except Exception      *)
(* (routes/classification.py lines 33-51 and 68-85).  Nothing in classify  *)
(* raises on a validated description, so the failures are let in from      *)
(* outside: while a call of classify is in progress an exception may come  *)
(* out of it instead of a result.                                          *)
(***************************************************************************)
\* str(e) of the exceptions that come out of classify.
Exceptions == { "out of memory", "maximum recursion depth exceeded" }

\* The call of classify in progress raises e, which leaves classify and
\* reaches the handler's except clause.
ClassifyRaises(h, e) ==
    /\ hpc[h] = "classify"
    /\ hpc' = [hpc EXCEPT ![h] = "raised"]
    /\ frame' = bind_local(frame, h, "e", e)
    /\ UNCHANGED << classifier, direct, request, response >>

\* Mutant of on_exception: the handler answers with what the loop has
\* collected so far.
on_exception_partial(prefix, e, results) ==
    Response(200, NoResult, results, << >>)

\* raise HTTPException(status_code=HTTP_500_INTERNAL_SERVER_ERROR,
\*                     detail=f"<prefix>{str(e)}")
on_exception(prefix, e, results) ==
    Response(500, NoResult, << >>, << prefix, e >>)

\* except Exception as e, in classify_task (lines 46-51).
SingleExcept(h) ==
    /\ hpc[h] = "raised"
    /\ request[h].endpoint = "/classify/"
    /\ response' = [response EXCEPT ![h] =
                       on_exception("Classification failed: ", frame[h].e,
                                    << >>)]
    /\ hpc' = [hpc EXCEPT ![h] = "responded"]
    /\ frame' = [frame EXCEPT ![h] = NoFrame]
    /\ UNCHANGED << classifier, direct, request >>

\* except Exception as e, in classify_tasks_batch (lines 80-85); the
\* results collected so far are in scope.
BatchExcept(h) ==
    /\ hpc[h] = "raised"
    /\ request[h].endpoint = "/classify/batch"
    /\ response' = [response EXCEPT ![h] =
                       on_exception("Batch classification failed: ",
                                    frame[h].e, frame[h].results)]
    /\ hpc' = [hpc EXCEPT ![h] = "responded"]
    /\ frame' = [frame EXCEPT ![h] = NoFrame]
    /\ UNCHANGED << classifier, direct, request >>

\* One handler serving single and batch requests, one after the other,
\* with calls of classify that may raise.
NextFailure ==
    \/ \E body \in Bodies : SingleCall(1, body)
    \/ SingleReturn(1)
    \/ \E bodies \in Batches : BatchCall(1, bodies)
    \/ BatchCount(1)
    \/ BatchAppend(1)
    \/ BatchReturn(1)
    \/ \E e \in Exceptions : ClassifyRaises(1, e)
    \/ SingleExcept(1)
    \/ BatchExcept(1)
    \/ Done(1)

SpecFailure == InitService /\ [][NextFailure]_vars

(***************************************************************************)
(* What the claims speak of, stated on the tables as declared: how many    *)
(* patterns of each type occur in a description, and where a type stands   *)
(* in the KEYWORDS table.                                                  *)
(***************************************************************************)
Returned == pc = "done" /\ result # ValidationError

DeclIndex(t) == CHOOSE i \in 1..Len(KEYWORDS) : KEYWORDS[i].task_type = t

\* The pieces of a text, case folded, and the set of them.
Folded(text) == [i \in DOMAIN text.pieces |-> Lower(text.pieces[i])]

\* The pattern, a case-insensitive expression between two \b, occurs in the
\* text with folded pieces ps, whose set is ws: a one-word pattern when one
\* of its alternatives is a word of the text, a longer one when its elements
\* admit consecutive pieces.
Occurs(pattern, ps, ws) ==
    IF Len(pattern) = 1
    THEN pattern[1] \cap ws # {}
    ELSE \E i \in 1..(Len(ps) - Len(pattern) + 1) :
            \A j \in 1..Len(pattern) : ps[i + j - 1] \in pattern[j]

\* Match count of every task type.
Counts(text) ==
    LET ps == Folded(text)
        ws == { ps[i] : i \in DOMAIN ps }
    IN  [t \in TaskType |->
            LET pats == KEYWORDS[DeclIndex(t)].patterns
            IN  Cardinality({ k \in 1..Len(pats) : Occurs(pats[k], ps, ws) })]

Matched(n) == { t \in TaskType : n[t] > 0 }

RECURSIVE SumOver(_, _)
SumOver(S, n) ==
    IF S = {} THEN 0
    ELSE LET t == CHOOSE t \in S : TRUE
         IN  n[t] + SumOver(S \ {t}, n)

HasIndicator(level, text) ==
    LET ps == Folded(text)
        ws == { ps[i] : i \in DOMAIN ps }
    IN  \E k \in 1..Len(COMPLEXITY_KEYWORDS[level]) :
            Occurs(COMPLEXITY_KEYWORDS[level][k], ps, ws)

\* The rational c is n/d.
IsQ(c, n, d) == c[1] * d = n * c[2]

(***************************************************************************)
(* C1: for every text, the fallback branch included, the returned          *)
(* suggested_strategy and estimated_tokens are the ones the table assigns  *)
(* to the returned complexity: simple -> (SingleShot, 2000), medium ->     *)
(* (Iterative, 6000), complex -> (MultiAgent, 20000).                      *)
(***************************************************************************)
C1_StrategyAndTokensFollowComplexity ==
    Returned =>
        << result.suggested_strategy, result.estimated_tokens >> =
            CASE result.complexity = "simple"  -> << "SingleShot", 2000 >>
              [] result.complexity = "medium"  -> << "Iterative", 6000 >>
              [] result.complexity = "complex" -> << "MultiAgent", 20000 >>

(***************************************************************************)
(* C2: whatever task-type keywords a text contains, a "complex" indicator  *)
(* gives complexity COMPLEX, MultiAgent and 20000 regardless of the word   *)
(* count, and a "simple" indicator gives SIMPLE, SingleShot and 2000.      *)
(***************************************************************************)
C2_ExplicitIndicatorDecides ==
    Returned =>
        /\ HasIndicator("complex", task_description) =>
              /\ result.complexity = "complex"
              /\ result.suggested_strategy = "MultiAgent"
              /\ result.estimated_tokens = 20000
        /\ HasIndicator("simple", task_description) =>
              /\ result.complexity = "simple"
              /\ result.suggested_strategy = "SingleShot"
              /\ result.estimated_tokens = 2000

(***************************************************************************)
(* C3: every call of classify returns a result (construction of the        *)
(* result never fails validation) with confidence in [0,1],                *)
(* estimated_tokens > 0, task_type one of the six task types and           *)
(* complexity one of simple, medium, complex.                              *)
(***************************************************************************)
C3_ResultInRange ==
    pc = "done" =>
        /\ result # ValidationError
        /\ 0 <= result.confidence[1]
        /\ result.confidence[1] <= result.confidence[2]
        /\ result.estimated_tokens > 0
        /\ result.task_type \in {"bug_fix", "feature", "refactor",
                                 "documentation", "test", "deployment"}
        /\ result.complexity \in {"simple", "medium", "complex"}

\* A call whose one matched type gets the boosted confidence, capped at 0.95.
C3_Witness ==
    /\ Returned
    /\ Cardinality(Matched(Counts(task_description))) = 1
    /\ IsQ(result.confidence, 95, 100)
    /\ result.estimated_tokens = 20000

(***************************************************************************)
(* C4: when at least one task type has a match, the returned type has a    *)
(* match count no other type exceeds, and among the types sharing the      *)
(* highest count it is the one declared first in the KEYWORDS table.       *)
(***************************************************************************)
C4_MostMatchesFirstDeclared ==
    Returned =>
        LET n == Counts(task_description)
        IN  Matched(n) # {} =>
              \A t \in TaskType :
                 /\ n[t] <= n[result.task_type]
                 /\ DeclIndex(t) < DeclIndex(result.task_type) =>
                      n[t] < n[result.task_type]

\* Three types tie at the highest count: the tie goes to the first declared
\* of the three, which stands last in the text.
C4_Witness ==
    /\ Returned
    /\ task_description.pieces = << "deploy", " ", "docs", " ", "add" >>
    /\ result.task_type = "feature"

(***************************************************************************)
(* C5: when at least one type has a match, with base_confidence = (count   *)
(* of the winning type) / (sum of the counts of all matched types): if     *)
(* exactly one type matched, confidence = min(0.95, base_confidence +      *)
(* 0.2); if two or more matched, confidence = min(0.85, base_confidence).  *)
(***************************************************************************)
C5_ConfidenceFormula ==
    Returned =>
        LET n     == Counts(task_description)
            w     == n[result.task_type]
            total == SumOver(Matched(n), n)
        IN  Matched(n) # {} =>
              IF Cardinality(Matched(n)) = 1
              THEN \* base + 0.2 = (5w + total) / (5 total), 0.95 = 19/20
                   IF 19 * 5 * total <= 20 * (5 * w + total)
                   THEN IsQ(result.confidence, 19, 20)
                   ELSE IsQ(result.confidence, 5 * w + total, 5 * total)
              ELSE \* 0.85 = 17/20
                   IF 17 * total <= 20 * w
                   THEN IsQ(result.confidence, 17, 20)
                   ELSE IsQ(result.confidence, w, total)

\* Two types matched and the winner's share, 6/7, is cut down to 0.85.
C5_Witness ==
    /\ Returned
    /\ result.confidence = << 17, 20 >>
    /\ LET n == Counts(task_description)
       IN  /\ Cardinality(Matched(n)) = 2
           /\ n[result.task_type] = 6
           /\ SumOver(Matched(n), n) = 7

(***************************************************************************)
(* C6: for every text in which no pattern of any task type matches,        *)
(* classify returns task_type FEATURE, confidence exactly 0.3 and          *)
(* classifier_used "heuristic".                                            *)
(***************************************************************************)
C6_FallbackIsFeature ==
    (pc = "done" /\ Matched(Counts(task_description)) = {}) =>
        /\ result # ValidationError
        /\ result.task_type = "feature"
        /\ IsQ(result.confidence, 3, 10)
        /\ result.classifier_used = "heuristic"

\* A description without any keyword ("prefix" contains "fix", but not as a
\* word).
C6_Witness ==
    /\ Returned
    /\ task_description.pieces = << "prefix" >>
    /\ result.task_type = "feature"

(***************************************************************************)
(* C7: for every task type T and every text that matches at least one      *)
(* pattern of T and no pattern of any other type, classify returns         *)
(* task_type T with confidence > 0.5 and classifier_used "heuristic".      *)
(***************************************************************************)
C7_SingleTypeDominates ==
    pc = "done" =>
        LET n == Counts(task_description)
        IN  \A T \in TaskType :
              Matched(n) = {T} =>
                 /\ result # ValidationError
                 /\ result.task_type = T
                 /\ 2 * result.confidence[1] > result.confidence[2]
                 /\ result.classifier_used = "heuristic"

\* Two patterns of the one type TEST match.
C7_Witness ==
    /\ Returned
    /\ result.task_type = "test"
    /\ LET n == Counts(task_description)
       IN  Matched(n) = {"test"} /\ n["test"] = 2

(***************************************************************************)
(* What a lone call of classify returns for a description: the direct call *)
(* of Spec, on the tables as constructed.                                  *)
(***************************************************************************)
LoneCall(text) ==
    classify(init_compiled_keywords, init_compiled_complexity, text)

\* The body lacks task_description or carries the empty string.
EmptyOrMissing(body) ==
    \/ "task_description" \notin DOMAIN body
    \/ body.task_description = [pieces |-> << >>, pad |-> 0]

(***************************************************************************)
(* C8: for every sequence of valid requests the batch operation returns a  *)
(* sequence of the same length whose i-th result is what single-item       *)
(* classify returns for the i-th request's text, whatever the other items  *)
(* of the batch and whatever its position.                                 *)
(***************************************************************************)
C8_BatchIsItemwise ==
    \A h \in Handlers :
        (/\ hpc[h] = "responded"
         /\ request[h].endpoint = "/classify/batch"
         /\ \A k \in 1..Len(request[h].body) :
               ~EmptyOrMissing(request[h].body[k])) =>
            /\ response[h].status = 200
            /\ Len(response[h].results) = Len(request[h].body)
            /\ \A k \in 1..Len(request[h].body) :
                  response[h].results[k] =
                      LoneCall(request[h].body[k].task_description)

\* A batch of three with the same description first and last and another
\* one between them has been answered.
C8_Witness ==
    \E h \in Handlers :
        /\ hpc[h] = "responded"
        /\ response[h].status = 200
        /\ Len(response[h].results) = 3
        /\ response[h].results[1] = response[h].results[3]
        /\ response[h].results[1].task_type = "bug_fix"
        /\ response[h].results[2].task_type = "documentation"

(***************************************************************************)
(* C9: the classifier is stateless after construction.  No call modifies   *)
(* the compiled pattern tables, and in every interleaving of the calls of  *)
(* concurrent callers on the one shared instance each call returns what a  *)
(* lone call on the same text returns, whatever ran before or in between   *)
(* (so two calls on the same text return the same).                        *)
(***************************************************************************)
C9_StatelessUnderInterleaving ==
    /\ compiled_keywords = init_compiled_keywords
    /\ compiled_complexity = init_compiled_complexity
    /\ \A h \in Handlers :
          (hpc[h] = "responded" /\ request[h].endpoint = "/classify/"
             /\ ~EmptyOrMissing(request[h].body)) =>
              /\ response[h].status = 200
              /\ response[h].result =
                     LoneCall(request[h].body.task_description)

\* Two calls ran at the same time on different descriptions: one has
\* returned while the other is between its two halves.
C9_Witness ==
    \E g, h \in Handlers :
        /\ hpc[g] = "responded" /\ response[g].status = 200
        /\ hpc[h] = "classify"
        /\ request[g].body.task_description # request[h].body.task_description
        /\ frame[h].match_counts # << >>

(***************************************************************************)
(* C10: a single-item request whose task_description is empty or missing   *)
(* is answered 422 and classify is never invoked for it; every request     *)
(* that reaches classify carries a non-empty task_description.             *)
(***************************************************************************)
C10_EmptyRejectedAtBoundary ==
    \A h \in Handlers :
        /\ (request[h].endpoint = "/classify/"
              /\ EmptyOrMissing(request[h].body)) =>
              /\ hpc[h] = "responded"
              /\ response[h].status = 422
              /\ frame[h] = NoFrame
        /\ (hpc[h] = "classify" /\ request[h].endpoint = "/classify/") =>
              /\ "task_description" \in DOMAIN request[h].body
              /\ request[h].body.task_description # [pieces |-> << >>, pad |-> 0]

\* One request without the field and one with the empty string have been
\* answered 422.
C10_Witness ==
    \E g, h \in Handlers :
        /\ "task_description" \notin DOMAIN request[g].body
        /\ request[g].endpoint = "/classify/"
        /\ response[g].status = 422
        /\ request[h].endpoint = "/classify/"
        /\ "task_description" \in DOMAIN request[h].body
        /\ request[h].body.task_description = [pieces |-> << >>, pad |-> 0]
        /\ response[h].status = 422

(***************************************************************************)
(* C11: an exception that comes out of classify is answered by the handler *)
(* with status 500 and a detail that names the endpoint's failure and      *)
(* carries str(e), for the single-item handler and for the batch handler;  *)
(* the batch handler's 500 carries no result and no list of results,       *)
(* whatever the loop had collected before the item that failed.            *)
(***************************************************************************)
FailurePrefix(endpoint) ==
    IF endpoint = "/classify/"
    THEN "Classification failed: "
    ELSE "Batch classification failed: "

C11_FailureIsServerError ==
    [][\A h \in Handlers :
          hpc[h] = "raised" =>
              \/ hpc'[h] = "raised" /\ response'[h] = response[h]
              \/ /\ hpc'[h] = "responded"
                 /\ response'[h].status = 500
                 /\ response'[h].detail =
                        << FailurePrefix(request[h].endpoint), frame[h].e >>
                 /\ response'[h].result = NoResult
                 /\ response'[h].results = << >>]_vars

\* A batch of three items was answered 500 although classify had returned
\* for some of them, and a single-item request was answered 500 before.
C11_Witness ==
    /\ hpc[1] = "responded"
    /\ request[1].endpoint = "/classify/batch"
    /\ Len(request[1].body) = 3
    /\ response[1].status = 500
    /\ response[1].detail =
           << "Batch classification failed: ", "out of memory" >>
    /\ response[1].results = << >>

(***************************************************************************)
(* C12: the returned complexity is a function of the description's         *)
(* complexity indicators and of its number n of whitespace-delimited       *)
(* tokens alone, whichever task type won or none: complex when a complex   *)
(* indicator occurs (a simple one may occur too); otherwise simple when a  *)
(* simple indicator occurs; otherwise simple when n < 20, complex when     *)
(* n > 100 and medium when 20 <= n <= 100.                                 *)
(***************************************************************************)
C12_ComplexityFromIndicatorsAndLength ==
    Returned =>
        LET n == WordCount(task_description)
        IN  result.complexity =
                IF HasIndicator("complex", task_description) THEN "complex"
                ELSE IF HasIndicator("simple", task_description) THEN "simple"
                ELSE IF n < 20 THEN "simple"
                ELSE IF n > 100 THEN "complex"
                ELSE "medium"

\* A description of exactly one hundred words, without an indicator and
\* with a task-type keyword, came back medium.
C12_Witness ==
    /\ Returned
    /\ WordCount(task_description) = 100
    /\ ~HasIndicator("complex", task_description)
    /\ ~HasIndicator("simple", task_description)
    /\ Matched(Counts(task_description)) # {}
    /\ result.complexity = "medium"

(***************************************************************************)
(* C13: when a type matched, the reasoning names the winning type and its  *)
(* match count and lists min(3, count) patterns: the first ones, in the    *)
(* order of the winning type's pattern list in KEYWORDS, among those that  *)
(* occur in the text, wherever they occur in it; hence no pattern of       *)
(* another type and none that does not occur.                              *)
(***************************************************************************)
C13_ReasoningListsFirstThree ==
    (Returned /\ Matched(Counts(task_description)) # {}) =>
        LET n      == Counts(task_description)
            winner == result.task_type
            pats   == KEYWORDS[DeclIndex(winner)].patterns
            ps     == Folded(task_description)
            ws     == { ps[i] : i \in DOMAIN ps }
            occur  == { k \in 1..Len(pats) : Occurs(pats[k], ps, ws) }
            listed == result.reasoning.args[3]
        IN  /\ result.reasoning.format = "Matched {} keywords for {}: {}"
            /\ result.reasoning.args[1] = n[winner]
            /\ result.reasoning.args[2] = winner
            /\ Len(listed) = IF n[winner] < 3 THEN n[winner] ELSE 3
            /\ \A j \in 1..Len(listed) :
                  \E k \in occur :
                     /\ Cardinality({ m \in occur : m <= k }) = j
                     /\ listed[j] = pats[k]

\* Six bug_fix patterns occur, in the text order fix, broken, failing, bug,
\* crash, issue; the reasoning lists bug, fix, crash.
C13_Witness ==
    /\ Returned
    /\ task_description.pieces =
           << "fix", " ", "broken", " ", "failing", " ", "bug", " ", "crash",
              " ", "issue" >>
    /\ result.reasoning.args =
           << 6, "bug_fix", << Kw("bug"), Kw("fix"), Kw("crash") >> >>

(***************************************************************************)
(* C14: the confidence has one of three shapes: 0.3 when no type matched;  *)
(* 0.95 when exactly one type matched, whatever its count; when k >= 2     *)
(* types matched, a value of at least 1/k, hence at least 1/6, and at most *)
(* 0.85.  It never exceeds 0.95, and exceeds 0.85 only when exactly one    *)
(* type matched.                                                           *)
(***************************************************************************)
C14_ConfidenceShapes ==
    Returned =>
        LET k == Cardinality(Matched(Counts(task_description)))
            c == result.confidence
        IN  /\ k = 0 => IsQ(c, 3, 10)
            /\ k = 1 => IsQ(c, 95, 100)
            /\ k >= 2 => /\ LeQ(Q(1, k), c)
                         /\ LeQ(Q(1, 6), c)
                         /\ LeQ(c, Q(85, 100))
            /\ LeQ(c, Q(95, 100))
            /\ LtQ(Q(85, 100), c) => k = 1

\* Three types matched once each and the confidence is the lower bound 1/3.
C14_Witness ==
    /\ Returned
    /\ Cardinality(Matched(Counts(task_description))) = 3
    /\ IsQ(result.confidence, 1, 3)

=============================================================================
